---- MODULE Spec2Model ----
(***************************************************************************)
(* A model of UpdateData.py: the batch pipeline that loads the confirmed   *)
(* and deaths time series and the population reference, reshapes them into *)
(* one long table keyed by (FIPS, Date), derives six metric columns and    *)
(* writes two CSV files.                                                   *)
(*                                                                         *)
(* Strings that the program orders or formats (FIPS codes, date labels)    *)
(* are sequences of characters; a digit character is the number 0..9 and   *)
(* the character "/" is Slash, which sorts below every digit as in ASCII.  *)
(* A wide table is [dates, rows]: dates are the labels of the columns from *)
(* position 11 on, and each row carries FIPS, Province_State and vals, one *)
(* value per date column.  Row labels are pandas' RangeIndex: 0, 1, ...    *)
(***************************************************************************)
EXTENDS Integers, Sequences, FiniteSets, TLC

\* Number of date columns of the confirmed time series.
NumDates == 8

\* The character "/" of a date label (ASCII 47, below the digits 48..57).
Slash == -1

\* A missing FIPS cell as read_csv returns it.
NaN == -1

-----------------------------------------------------------------------------
(* Strings *)

RECURSIVE Str(_)
\* astype('str') of a non-negative integer: its decimal digits.
Str(n) == IF n < 10 THEN <<n>> ELSE Str(n \div 10) \o <<n % 10>>

RECURSIVE ZFill(_, _)
\* str.zfill(w): pad with "0" on the left up to width w, never truncate.
ZFill(s, w) == IF Len(s) >= w THEN s ELSE ZFill(<<0>> \o s, w)

RECURSIVE StrLess(_, _)
\* Python's < on strings: lexicographic, a proper prefix is smaller.
StrLess(a, b) ==
    IF a = <<>> THEN b # <<>>
    ELSE IF b = <<>> THEN FALSE
    ELSE IF a[1] # b[1] THEN a[1] < b[1]
    ELSE StrLess(Tail(a), Tail(b))

RECURSIVE ToInt(_)
\* int() of a string of digits.
ToInt(ds) ==
    IF ds = <<>> THEN 0
    ELSE ToInt(SubSeq(ds, 1, Len(ds) - 1)) * 10 + ds[Len(ds)]

RECURSIVE Split(_)
\* The "/"-separated fields of a date label.
Split(s) ==
    IF \A i \in 1..Len(s) : s[i] # Slash THEN <<s>>
    ELSE LET p == CHOOSE i \in 1..Len(s) :
                      s[i] = Slash /\ \A j \in 1..(i - 1) : s[j] # Slash
         IN  <<SubSeq(s, 1, p - 1)>> \o Split(SubSeq(s, p + 1, Len(s)))

\* pd.to_datetime(label, format='%m/%d/%y'): the calendar date <<year, month, day>>.
ToDatetime(label) ==
    LET f  == Split(label)
        yy == ToInt(f[3])
    IN  <<(IF yy < 69 THEN 2000 ELSE 1900) + yy, ToInt(f[1]), ToInt(f[2])>>

\* Timestamp < Timestamp: chronological order.
DateLess(a, b) ==
    \/ a[1] < b[1]
    \/ a[1] = b[1] /\ a[2] < b[2]
    \/ a[1] = b[1] /\ a[2] = b[2] /\ a[3] < b[3]

Range(s) == {s[i] : i \in 1..Len(s)}

\* Position of label x in a list of column labels.
PosOf(s, x) == CHOOSE i \in 1..Len(s) : s[i] = x /\ \A j \in 1..(i - 1) : s[j] # x

RECURSIVE SumSeq(_)
\* np.sum of a column of integers.
SumSeq(s) == IF s = <<>> THEN 0 ELSE s[1] + SumSeq(Tail(s))

RECURSIVE Flatten(_)
\* list.extend over a list of lists.
Flatten(ss) == IF ss = <<>> THEN <<>> ELSE ss[1] \o Flatten(Tail(ss))

RECURSIVE SortedList(_)
\* sorted(list(S)) for a set S of strings.
SortedList(S) ==
    IF S = {} THEN <<>>
    ELSE LET m == CHOOSE x \in S : \A y \in S \ {x} : StrLess(x, y)
         IN  <<m>> \o SortedList(S \ {m})

\* The national identifier '00000'.
Usa == <<0, 0, 0, 0, 0>>

\* The sentinel county codes "01001" and "56045".
First01001 == <<0, 1, 0, 0, 1>>
Last56045 == <<5, 6, 0, 4, 5>>

\* round(x, 0) of the quotient a / b, b > 0: numpy rounds half to even.
Round(a, b) ==
    LET q == a \div b
        r == a % b
    IN  IF 2 * r < b THEN q
        ELSE IF 2 * r > b THEN q + 1
        ELSE IF q % 2 = 0 THEN q ELSE q + 1

-----------------------------------------------------------------------------
(* The external inputs: what the two URLs and the local file hold. *)

\* The calendar day of the i-th observation: 9/24/20 for i = 0, then onward.
Day(i) == IF i <= 6 THEN <<9, 24 + i>> ELSE <<10, i - 6>>

\* The label the published time series give day i: month/day/two-digit year.
Label(i) == Str(Day(i)[1]) \o <<Slash>> \o Str(Day(i)[2]) \o <<Slash>> \o Str(20)

\* Shapes a cumulative series takes: no cases, growth, and a series that is
\* revised downward.
Patterns == {"zero", "grow", "corr"}

Series(p, i) ==
    CASE p = "zero" -> 0
      [] p = "grow" -> 2 * i + (i % 3)
      [] p = "corr" -> 40 - 3 * i - (i % 2)

\* The county rows every layout holds.
Counties == {1001, 1003, 56045}

Layouts == {"clean", "jhu", "dup"}

\* The geographic rows of a published time series, in file order.  "clean"
\* holds the counties only; "jhu" is unsorted and also holds an Unassigned row
\* of Alabama (FIPS 90001) and a row without FIPS; "dup" holds the first
\* county twice.
SourceRows(layout) ==
    IF layout = "clean"
    THEN << [FIPS |-> 1001,  Province_State |-> "Alabama"],
            [FIPS |-> 1003,  Province_State |-> "Alabama"],
            [FIPS |-> 56045, Province_State |-> "Wyoming"] >>
    ELSE IF layout = "dup"
    THEN << [FIPS |-> 1001,  Province_State |-> "Alabama"],
            [FIPS |-> 1003,  Province_State |-> "Alabama"],
            [FIPS |-> 1001,  Province_State |-> "Alabama"],
            [FIPS |-> 56045, Province_State |-> "Wyoming"] >>
    ELSE << [FIPS |-> 56045, Province_State |-> "Wyoming"],
            [FIPS |-> 1001,  Province_State |-> "Alabama"],
            [FIPS |-> 90001, Province_State |-> "Alabama"],
            [FIPS |-> 1003,  Province_State |-> "Alabama"],
            [FIPS |-> NaN,   Province_State |-> "Wyoming"] >>

\* A wide table: one row per source row, one value per day in days.
WideTable(layout, pat, days) ==
    LET src == SourceRows(layout)
    IN  [dates |-> [k \in 1..Len(days) |-> Label(days[k])],
         rows  |-> [r \in 1..Len(src) |->
                     [FIPS           |-> src[r].FIPS,
                      Province_State |-> src[r].Province_State,
                      vals |-> [k \in 1..Len(days) |-> Series(pat[src[r].FIPS], days[k])]]]]

ConfirmedDays == [k \in 1..NumDates |-> k]

\* The date columns of the deaths file relative to the confirmed file.
DeathsVariants == {"same", "stale", "short", "extra"}

DeathsDays(v) ==
    CASE v = "same"  -> ConfirmedDays
      [] v = "stale" -> SubSeq(ConfirmedDays, 1, NumDates - 1)
      [] v = "short" -> Tail(ConfirmedDays)
      [] v = "extra" -> <<0>> \o ConfirmedDays

DeathsChoices == {"a", "b"}

DeathsPattern(c) ==
    IF c = "a"
    THEN [f \in Counties \cup {90001, NaN} |-> "grow"]
    ELSE [f \in Counties \cup {90001, NaN} |->
            CASE f = 1001 -> "corr" [] f = 1003 -> "zero" [] OTHER -> "grow"]

PopVariants == {"sorted", "statesFirst", "missingCounty", "territory", "blankRow"}

\* The FIPS cells of the population file, in file order.
PopFipsColumn(v) ==
    CASE v = "sorted"        -> <<1000, 1001, 1003, 56000, 56045>>
      [] v = "statesFirst"   -> <<1000, 56000, 1001, 1003, 56045>>
      [] v = "missingCounty" -> <<1000, 1001, 56000, 56045>>
      [] v = "territory"     -> <<1000, 1001, 1003, 56000, 56045, 72000>>
      [] v = "blankRow"      -> <<1000, 1001, 1003, 56000, 56045, NaN>>

StName(f) ==
    CASE f \in {1000, 1001, 1003} -> "Alabama"
      [] f \in {56000, 56045}     -> "Wyoming"
      [] f = 72000                -> "Puerto Rico"
      [] OTHER                    -> ""

PopSeeds == {1, 2}

\* The PER100K cell of a population row.
Per100k(f, seed) ==
    IF seed = 1
    THEN CASE f = 1001 -> 2 [] f = 1003 -> 3 [] f = 56045 -> 4 [] f = 1000 -> 5
           [] f = 56000 -> 4 [] f = 72000 -> 7 [] OTHER -> 1
    ELSE CASE f = 1001 -> 1 [] f = 1003 -> 5 [] f = 56045 -> 2 [] f = 1000 -> 6
           [] f = 56000 -> 2 [] f = 72000 -> 3 [] OTHER -> 1

PopTable(v, seed) ==
    LET col == PopFipsColumn(v)
    IN  [rows |-> [r \in 1..Len(col) |->
                    [FIPS |-> col[r], STNAME |-> StName(col[r]),
                     PER100K |-> Per100k(col[r], seed)]]]

\* The confirmed series of the rows: two shapes for each county, growth for
\* the rows that are no county.
ConfirmedPatterns ==
    { [f \in Counties \cup {90001, NaN} |-> IF f \in Counties THEN cp[f] ELSE "grow"] :
        cp \in { q \in [Counties -> Patterns] :
                    q[1001] # "zero" /\ q[1003] # "corr" /\ q[56045] # "zero" } }

\* Every combination of inputs a run is started on.
Worlds ==
    { [confirmed  |-> WideTable(layout, cp, ConfirmedDays),
       deaths     |-> WideTable(layout, DeathsPattern(dc), DeathsDays(dv)),
       population |-> PopTable(pv, ps)] :
        layout \in Layouts, cp \in ConfirmedPatterns,
        dc \in DeathsChoices, dv \in DeathsVariants, pv \in PopVariants,
        ps \in PopSeeds }

-----------------------------------------------------------------------------
(* fix_fips *)

\* fillna(0).astype('int32').astype('str').str.zfill(5) of one FIPS cell.
FixFipsCell(raw) == ZFill(Str(IF raw = NaN THEN 0 ELSE raw), 5)

\* fix_fips(df): the FIPS column rewritten, everything else kept.
FixFips(df) ==
    [df EXCEPT !.rows = [r \in 1..Len(df.rows) |->
                            [df.rows[r] EXCEPT !.FIPS = FixFipsCell(df.rows[r].FIPS)]]]

-----------------------------------------------------------------------------
(* Row lookup by FIPS *)

\* df[df['FIPS'] == fips].index: the labels of the matching rows.
MatchLabels(df, fips) == {r - 1 : r \in {q \in 1..Len(df.rows) : df.rows[q].FIPS = fips}}

\* int(*labels) raises TypeError when given two or more labels.
IndexRaises(df, fips) == Cardinality(MatchLabels(df, fips)) > 1

\* int(*labels): the label of the one matching row; int() of nothing is 0.
IndexOf(df, fips) ==
    IF MatchLabels(df, fips) = {} THEN 0
    ELSE CHOOSE l \in MatchLabels(df, fips) : TRUE

-----------------------------------------------------------------------------
(* get_dicts *)

\* pop_fips = [*df2.index]: the population identifiers in file order.
PopFips(df2) == [r \in 1..Len(df2.rows) |-> df2.rows[r].FIPS]

\* df1.sort_values('FIPS'): the row labels in ascending order of FIPS.
SortValuesFips(df1) ==
    SortSeq([r \in 1..Len(df1.rows) |-> r - 1],
            LAMBDA a, b : StrLess(df1.rows[a + 1].FIPS, df1.rows[b + 1].FIPS))

\* list(df1.loc[index_01001:index_56045, 'FIPS']) on the sorted frame: the
\* FIPS of the rows from label index_01001 to label index_56045, inclusive.
CountyFips(df1) ==
    LET order == SortValuesFips(df1)
        lo    == PosOf(order, IndexOf(df1, First01001))
        hi    == PosOf(order, IndexOf(df1, Last56045))
    IN  [k \in 1..(IF hi >= lo THEN hi - lo + 1 ELSE 0) |->
            df1.rows[order[lo + k - 1] + 1].FIPS]

\* sorted(list(set(pop_fips) - set(county_fips)))
\* (The same without the subtraction: every population identifier.)
StateFipsAll(pop, county) == SortedList(Range(pop))
StateFips(pop, county) == SortedList(Range(pop) \ Range(county))

\* sorted(['00000'] + pop_fips)
AllFips(pop) == SortSeq(<<Usa>> \o pop, StrLess)

\* df2.loc[fips, 'STNAME']
StNameOf(df2, fips) ==
    (CHOOSE row \in Range(df2.rows) : row.FIPS = fips).STNAME

\* df2.loc[fips, 'PER100K']
Per100kOf(df2, fips) ==
    (CHOOSE row \in Range(df2.rows) : row.FIPS = fips).PER100K

\* The list_dict get_dicts returns.
ListDict(df1, df2) ==
    LET pop    == PopFips(df2)
        county == CountyFips(df1)
    IN  [all_fips    |-> AllFips(pop),
         state_fips  |-> StateFips(pop, county),
         county_fips |-> county,
         pop_fips    |-> pop,
         dates       |-> df1.dates]

\* The state_dict get_dicts returns: state identifier -> state name.
StateDict(df2, state_fips) == [f \in Range(state_fips) |-> StNameOf(df2, f)]

\* get_dicts raises when a sentinel code occurs twice.
GetDictsRaises(df1) == IndexRaises(df1, First01001) \/ IndexRaises(df1, Last56045)

-----------------------------------------------------------------------------
(* combine_data *)

\* df[date].values: the column of a wide table under a date label.
ColumnAt(df, date) ==
    [r \in 1..Len(df.rows) |-> df.rows[r].vals[PosOf(df.dates, date)]]

\* df.loc[label, date]
CellAt(df, label, date) == df.rows[label + 1].vals[PosOf(df.dates, date)]

\* np.sum(df[df['Province_State'] == name][date])
StateSum(df, name, date) ==
    SumSeq(ColumnAt([df EXCEPT !.rows =
                        SelectSeq(df.rows, LAMBDA row : row.Province_State = name)],
                    date))

\* (The national sums taken over the rows of county_fips only.)
UsaCountiesOnly(df1, df2, dict1) ==
    [d \in 1..Len(dict1.dates) |->
        [FIPS |-> Usa, Date |-> dict1.dates[d],
         Confirmed |-> SumSeq([c \in 1..Len(dict1.county_fips) |->
                         CellAt(df1, IndexOf(df1, dict1.county_fips[c]), dict1.dates[d])]),
         Deaths    |-> SumSeq([c \in 1..Len(dict1.county_fips) |->
                         CellAt(df2, IndexOf(df2, dict1.county_fips[c]), dict1.dates[d])])]]
\* usa_total: one record per date, the sums over every row of the tables.
UsaTotal(df1, df2, dict1) ==
    [d \in 1..Len(dict1.dates) |->
        [FIPS |-> Usa, Date |-> dict1.dates[d],
         Confirmed |-> SumSeq(ColumnAt(df1, dict1.dates[d])),
         Deaths    |-> SumSeq(ColumnAt(df2, dict1.dates[d]))]]

\* counties_dict: for fips in county_fips, for date in dates, the cell of the
\* row found by FIPS in each table.
CountiesDict(df1, df2, dict1) ==
    LET nd == Len(dict1.dates)
    IN  [k \in 1..(Len(dict1.county_fips) * nd) |->
            LET fips == dict1.county_fips[((k - 1) \div nd) + 1]
                date == dict1.dates[((k - 1) % nd) + 1]
            IN  [FIPS |-> fips, Date |-> date,
                 Confirmed |-> CellAt(df1, IndexOf(df1, fips), date),
                 Deaths    |-> CellAt(df2, IndexOf(df2, fips), date)]]

\* (The state sums taken over the rows of county_fips only.)
StatesCountiesOnly(df1, df2, dict1, dict2) ==
    LET nd == Len(dict1.dates)
        inRange(df) == [df EXCEPT !.rows =
                          SelectSeq(df.rows, LAMBDA row : row.FIPS \in Range(dict1.county_fips))]
    IN  [k \in 1..(Len(dict1.state_fips) * nd) |->
            LET fips == dict1.state_fips[((k - 1) \div nd) + 1]
                date == dict1.dates[((k - 1) % nd) + 1]
            IN  [FIPS |-> fips, Date |-> date,
                 Confirmed |-> StateSum(inRange(df1), dict2[fips], date),
                 Deaths    |-> StateSum(inRange(df2), dict2[fips], date)]]
\* states: for fips in state_fips, for date in dates, the sums over the rows
\* whose Province_State is the state's name.
States(df1, df2, dict1, dict2) ==
    LET nd == Len(dict1.dates)
    IN  [k \in 1..(Len(dict1.state_fips) * nd) |->
            LET fips == dict1.state_fips[((k - 1) \div nd) + 1]
                date == dict1.dates[((k - 1) % nd) + 1]
            IN  [FIPS |-> fips, Date |-> date,
                 Confirmed |-> StateSum(df1, dict2[fips], date),
                 Deaths    |-> StateSum(df2, dict2[fips], date)]]

\* pd.concat([df, usa_df, states_df]): counties, then the nation, then states.
Concat(df1, df2, dict1, dict2) ==
    CountiesDict(df1, df2, dict1) \o UsaTotal(df1, df2, dict1)
        \o States(df1, df2, dict1, dict2)

\* final_df['Date'] = pd.to_datetime(final_df['Date'], format='%m/%d/%y')
ParseDates(recs) ==
    [k \in 1..Len(recs) |-> [recs[k] EXCEPT !.Date = ToDatetime(recs[k].Date)]]

\* The order of sort_index on the (FIPS, Date) index.
IndexLess(a, b) ==
    \/ StrLess(a.FIPS, b.FIPS)
    \/ a.FIPS = b.FIPS /\ DateLess(a.Date, b.Date)

\* The order the rows would take were they sorted on the date labels.
LabelLess(a, b) ==
    \/ StrLess(a.FIPS, b.FIPS)
    \/ a.FIPS = b.FIPS /\ StrLess(a.Date, b.Date)

\* A frame: the (FIPS, Date) index, the column names, each column's dtype and
\* one list of values per column.
Frame(recs) ==
    [index   |-> [k \in 1..Len(recs) |-> <<recs[k].FIPS, recs[k].Date>>],
     columns |-> <<"Confirmed", "Deaths">>,
     dtypes  |-> <<"int64", "int64">>,
     data    |-> << [k \in 1..Len(recs) |-> recs[k].Confirmed],
                    [k \in 1..Len(recs) |-> recs[k].Deaths] >>]

\* (The same with the sort done before the dates are parsed.)
CombineDataSortFirst(df1, df2, dict1, dict2) ==
    Frame(ParseDates(SortSeq(Concat(df1, df2, dict1, dict2), LabelLess)))
\* combine_data: concatenate, parse the dates, sort by (FIPS, Date).
CombineData(df1, df2, dict1, dict2) ==
    Frame(SortSeq(ParseDates(Concat(df1, df2, dict1, dict2)), IndexLess))

\* What combine_data raises, in the order its statements run: df2[date] for a
\* date the deaths table lacks, dates[-2] on fewer than two dates, int(*index)
\* on a county code that a table holds twice.
CombineFailure(df1, df2, dict1) ==
    IF \E d \in Range(dict1.dates) : d \notin Range(df2.dates) THEN "KeyError"
    ELSE IF Len(dict1.dates) < 2 THEN "IndexError"
    ELSE IF \E f \in Range(dict1.county_fips) : IndexRaises(df1, f) \/ IndexRaises(df2, f)
         THEN "TypeError"
    ELSE "none"

EmptyFrame == [index |-> <<>>, columns |-> <<>>, dtypes |-> <<>>, data |-> <<>>]

-----------------------------------------------------------------------------
(* new_column *)

\* data.loc[fips, column]: the column's values on the rows of fips, in row order.
Loc(data, fips, column) ==
    LET col  == data.data[PosOf(data.columns, column)]
        rows == SelectSeq([p \in 1..Len(data.index) |-> p],
                          LAMBDA p : data.index[p][1] = fips)
    IN  [k \in 1..Len(rows) |-> col[rows[k]]]

\* round(s.diff(periods=days).fillna(0) / days, 0)
Diff(s, days) ==
    [k \in 1..Len(s) |-> IF k <= days THEN 0 ELSE Round(s[k] - s[k - days], days)]

\* (The diff taken down the whole column, across identifiers.)
AverageListWholeColumn(column, data, dict1, days) ==
    Diff(data.data[PosOf(data.columns, column)], days)
\* kind == 'average': for fips in all_fips, extend lst by the rounded diff.
AverageList(column, data, dict1, days) ==
    Flatten([i \in 1..Len(dict1.all_fips) |->
                Diff(Loc(data, dict1.all_fips[i], column), days)])

\* kind == 'PER100K': the scaled population summed over state_fips.
TotalPer100k(data2, dict1) ==
    SumSeq([i \in 1..Len(dict1.state_fips) |-> Per100kOf(data2, dict1.state_fips[i])])

\* kind == 'PER100K': the '00000' rows first, then for fips in pop_fips.
Per100kList(column, data, data2, dict1) ==
    LET usa == Loc(data, Usa, column)
    IN  [k \in 1..Len(usa) |-> Round(usa[k], TotalPer100k(data2, dict1))]
        \o Flatten([i \in 1..Len(dict1.pop_fips) |->
              LET s == Loc(data, dict1.pop_fips[i], column)
              IN  [k \in 1..Len(s) |->
                      Round(s[k], Per100kOf(data2, dict1.pop_fips[i]))]])

\* new_column(column, kind, data, data2, dict1, days)
NewColumn(column, kind, data, data2, dict1, days) ==
    IF kind = "average" THEN AverageList(column, data, dict1, days)
    ELSE Per100kList(column, data, data2, dict1)

\* data.loc[fips, column] raises KeyError for a column or an identifier the
\* table lacks.
NewColumnRaises(column, kind, data, dict1) ==
    \/ column \notin Range(data.columns)
    \/ \E f \in (IF kind = "average" THEN Range(dict1.all_fips)
                 ELSE {Usa} \cup Range(dict1.pop_fips)) :
          \A p \in 1..Len(data.index) : data.index[p][1] # f

\* final_df[name] = lst: a new last column, of floats as round() returns them.
SetColumn(data, name, lst) ==
    [data EXCEPT !.columns = Append(@, name), !.dtypes = Append(@, "float64"),
                 !.data = Append(@, lst)]

-----------------------------------------------------------------------------
(* Dataset and the module-level statements *)

\* (The program with the primary table written before the derived columns.)
ProgramWriteEarly ==
    << "get_data", "assert", "fix_fips", "get_dicts", "combine_data", "to_csv",
       "New Cases", "New Deaths", "Cases, 7DMA", "Deaths, 7DMA",
       "New Cases Per 100k, 7DMA", "Deaths Per 100k", "astype", "export" >>
\* (The program with the first two derived columns in the other order.)
ProgramSwapped ==
    << "get_data", "assert", "fix_fips", "get_dicts", "combine_data",
       "New Deaths", "New Cases", "Cases, 7DMA", "Deaths, 7DMA",
       "New Cases Per 100k, 7DMA", "Deaths Per 100k", "astype", "to_csv", "export" >>
\* The statements of a run in program order: Dataset's body, then the export
\* of the county snapshot.  A derived column's stage bears the column's name.
Program ==
    << "get_data", "assert", "fix_fips", "get_dicts", "combine_data",
       "New Cases", "New Deaths", "Cases, 7DMA", "Deaths, 7DMA",
       "New Cases Per 100k, 7DMA", "Deaths Per 100k", "astype", "to_csv", "export" >>

\* The stage that follows a stage.
After(stage) ==
    IF PosOf(Program, stage) = Len(Program) THEN "done"
    ELSE Program[PosOf(Program, stage) + 1]

\* The arguments of the six new_column calls.
ColumnSpec(name) ==
    CASE name = "New Cases"    -> [column |-> "Confirmed", kind |-> "average", days |-> 1]
      [] name = "New Deaths"   -> [column |-> "Deaths",    kind |-> "average", days |-> 1]
      [] name = "Cases, 7DMA"  -> [column |-> "Confirmed", kind |-> "average", days |-> 7]
      [] name = "Deaths, 7DMA" -> [column |-> "Deaths",    kind |-> "average", days |-> 7]
      [] name = "New Cases Per 100k, 7DMA" ->
                                  [column |-> "Cases, 7DMA", kind |-> "PER100K", days |-> 1]
      [] name = "Deaths Per 100k" ->
                                  [column |-> "Deaths",    kind |-> "PER100K", days |-> 1]

DerivedColumns == DOMAIN [n \in {"New Cases", "New Deaths", "Cases, 7DMA", "Deaths, 7DMA",
                                 "New Cases Per 100k, 7DMA", "Deaths Per 100k"} |-> 0]

\* (No check at all, and a check of the first date labels instead.)
AssertAlways(c, d) == TRUE
AssertFirstLabel(c, d) == c.dates[1] = d.dates[1]
\* The check of line 28: the last column labels agree.
AssertHolds(c, d) == c.dates[Len(c.dates)] = d.dates[Len(d.dates)]

\* final_df.astype('int'): every column becomes integer; the values are
\* rounded already, so none changes.
AsTypeInt(data) == [data EXCEPT !.dtypes = [j \in 1..Len(data.dtypes) |-> "int64"]]

\* max(us_covid['Date'])
MaxDate(data) ==
    CHOOSE d \in {data.index[p][2] : p \in 1..Len(data.index)} :
        \A p \in 1..Len(data.index) : ~DateLess(d, data.index[p][2])

\* power: the rows of the latest date, re-ordered by .loc[county_fips].
Power(data, county_fips) ==
    LET rows == [c \in 1..Len(county_fips) |->
                    CHOOSE p \in 1..Len(data.index) :
                        data.index[p] = <<county_fips[c], MaxDate(data)>>]
    IN  [index   |-> [c \in 1..Len(rows) |-> data.index[rows[c]]],
         columns |-> data.columns,
         dtypes  |-> data.dtypes,
         data    |-> [j \in 1..Len(data.data) |->
                        [c \in 1..Len(rows) |-> data.data[j][rows[c]]]]]

\* power.loc[lst] raises KeyError for a county the table lacks.
PowerRaises(data, county_fips) ==
    \E c \in 1..Len(county_fips) :
        \A p \in 1..Len(data.index) : data.index[p][1] # county_fips[c]

\* A CSV file on disk: what the previous run left, what this run wrote, or
\* the remains of a write that failed after the file was opened.
Previous  == [tag |-> "prev",    frame |-> EmptyFrame]
Truncated == [tag |-> "partial", frame |-> EmptyFrame]
Written(data) == [tag |-> "new", frame |-> data]

EmptyDict ==
    [all_fips |-> <<>>, state_fips |-> <<>>, county_fips |-> <<>>,
     pop_fips |-> <<>>, dates |-> <<>>]

EmptyWide == [dates |-> <<>>, rows |-> <<>>]

VARIABLES
    world,       \* the contents of url1, url2 and local1
    disk,        \* the files final_loc and data/choropleth.csv
    pc,          \* the statement to run next, or the one that raised; "done"
    failure,     \* the exception that ended the run, "none" while it runs
    confirmed, deaths, population,   \* Dataset's three tables
    list_dict, state_dict,           \* the results of get_dicts
    final_df                         \* the table being built

vars == <<world, disk, pc, failure, confirmed, deaths, population,
          list_dict, state_dict, final_df>>

Init ==
    /\ world \in Worlds
    /\ disk = [primary |-> Previous, secondary |-> Previous]
    /\ pc = Program[1]
    /\ failure = "none"
    /\ confirmed = EmptyWide
    /\ deaths = EmptyWide
    /\ population = [rows |-> <<>>]
    /\ list_dict = EmptyDict
    /\ state_dict = [f \in {} |-> ""]
    /\ final_df = EmptyFrame

\* An exception propagates to the top level: nothing catches it, and the run
\* ends at the statement that raised.
Raise(kind) ==
    /\ pc' = pc
    /\ failure' = kind

\* The run has not ended and stands before the statement of this stage.
At(stage) ==
    /\ failure = "none"
    /\ pc = stage

\* Lines 23-25: the three get_data calls.
GetData ==
    /\ At("get_data")
    /\ confirmed' = world.confirmed
    /\ deaths' = world.deaths
    /\ population' = world.population
    /\ pc' = After(pc)
    /\ UNCHANGED <<world, disk, failure, list_dict, state_dict, final_df>>

\* read_csv raises when a source cannot be fetched.
GetDataFails ==
    /\ At("get_data")
    /\ Raise("NetworkFailure")
    /\ UNCHANGED <<world, disk, confirmed, deaths, population, list_dict, state_dict,
                   final_df>>

\* Line 28: the assert on the last column labels.
AssertDates ==
    /\ At("assert")
    /\ IF AssertHolds(confirmed, deaths)
       THEN pc' = After(pc) /\ failure' = failure
       ELSE Raise("AssertionError")
    /\ UNCHANGED <<world, disk, confirmed, deaths, population, list_dict, state_dict,
                   final_df>>

\* Lines 31-36: fix_fips on the three tables, set_index on population.
FixFipsTables ==
    /\ At("fix_fips")
    /\ confirmed' = FixFips(confirmed)
    /\ deaths' = FixFips(deaths)
    /\ population' = FixFips(population)
    /\ pc' = After(pc)
    /\ UNCHANGED <<world, disk, failure, list_dict, state_dict, final_df>>

\* Line 39: get_dicts.
GetDicts ==
    /\ At("get_dicts")
    /\ IF GetDictsRaises(confirmed)
       THEN /\ Raise("TypeError")
            /\ UNCHANGED <<list_dict, state_dict>>
       ELSE /\ list_dict' = ListDict(confirmed, population)
            /\ state_dict' = StateDict(population, ListDict(confirmed, population).state_fips)
            /\ pc' = After(pc)
            /\ failure' = failure
    /\ UNCHANGED <<world, disk, confirmed, deaths, population, final_df>>

\* Line 41: combine_data.
CombineTables ==
    /\ At("combine_data")
    /\ IF CombineFailure(confirmed, deaths, list_dict) # "none"
       THEN /\ Raise(CombineFailure(confirmed, deaths, list_dict))
            /\ final_df' = final_df
       ELSE /\ final_df' = CombineData(confirmed, deaths, list_dict, state_dict)
            /\ pc' = After(pc)
            /\ failure' = failure
    /\ UNCHANGED <<world, disk, confirmed, deaths, population, list_dict, state_dict>>

\* Lines 43-83: one of the six final_df[name] = new_column(...) statements.
\* The assignment raises ValueError when the list and the table differ in length.
AddColumn ==
    /\ failure = "none"
    /\ pc \in DerivedColumns
    /\ LET spec == ColumnSpec(pc)
           lst  == NewColumn(spec.column, spec.kind, final_df, population, list_dict,
                             spec.days)
       IN  IF NewColumnRaises(spec.column, spec.kind, final_df, list_dict)
           THEN Raise("KeyError") /\ final_df' = final_df
           ELSE IF Len(lst) # Len(final_df.index)
           THEN Raise("ValueError") /\ final_df' = final_df
           ELSE /\ final_df' = SetColumn(final_df, pc, lst)
                /\ pc' = After(pc)
                /\ failure' = failure
    /\ UNCHANGED <<world, disk, confirmed, deaths, population, list_dict, state_dict>>

\* Lines 86-88: astype('int') and reset_index.
AsType ==
    /\ At("astype")
    /\ final_df' = AsTypeInt(final_df)
    /\ pc' = After(pc)
    /\ UNCHANGED <<world, disk, failure, confirmed, deaths, population, list_dict,
                   state_dict>>

\* Line 90: to_csv(final_loc).
ToCsv ==
    /\ At("to_csv")
    /\ disk' = [disk EXCEPT !.primary = Written(final_df)]
    /\ pc' = After(pc)
    /\ UNCHANGED <<world, failure, confirmed, deaths, population, list_dict, state_dict,
                   final_df>>

\* to_csv raises: before the file is opened, or after it was truncated.
ToCsvFails ==
    /\ At("to_csv")
    /\ \/ disk' = disk
       \/ disk' = [disk EXCEPT !.primary = Truncated]
    /\ Raise("OSError")
    /\ UNCHANGED <<world, confirmed, deaths, population, list_dict, state_dict, final_df>>

\* Lines 296-301: the county snapshot of the latest date, written to
\* data/choropleth.csv.
Export ==
    /\ At("export")
    /\ IF PowerRaises(final_df, list_dict.county_fips)
       THEN Raise("KeyError") /\ disk' = disk
       ELSE /\ disk' = [disk EXCEPT !.secondary =
                            Written(Power(final_df, list_dict.county_fips))]
            /\ pc' = After(pc)
            /\ failure' = failure
    /\ UNCHANGED <<world, confirmed, deaths, population, list_dict, state_dict, final_df>>

\* The second to_csv raises.
ExportFails ==
    /\ At("export")
    /\ ~PowerRaises(final_df, list_dict.county_fips)
    /\ \/ disk' = disk
       \/ disk' = [disk EXCEPT !.secondary = Truncated]
    /\ Raise("OSError")
    /\ UNCHANGED <<world, confirmed, deaths, population, list_dict, state_dict, final_df>>

Next ==
    \/ GetData
    \/ GetDataFails
    \/ AssertDates
    \/ FixFipsTables
    \/ GetDicts
    \/ CombineTables
    \/ AddColumn
    \/ AsType
    \/ ToCsv
    \/ ToCsvFails
    \/ Export
    \/ ExportFails

Spec == Init /\ [][Next]_vars

-----------------------------------------------------------------------------
(* Vocabulary of the properties *)

\* The value a frame holds in a column at the row keyed (fips, date).
Cell(frame, column, fips, date) ==
    frame.data[PosOf(frame.columns, column)]
              [CHOOSE p \in 1..Len(frame.index) : frame.index[p] = <<fips, date>>]

RECURSIVE SumOver(_, _)
\* The sum of f[x] over the members x of a finite set S.
SumOver(S, f) ==
    IF S = {} THEN 0
    ELSE LET x == CHOOSE y \in S : TRUE IN f[x] + SumOver(S \ {x}, f)

\* The value a source file holds in row r under the date label l.
SourceCell(table, r, l) == table.rows[r].vals[PosOf(table.dates, l)]

\* The source file a column of the long table is taken from.
SourceOf(column) == IF column = "Confirmed" THEN world.confirmed ELSE world.deaths

LastLabel(table) == table.dates[Len(table.dates)]

\* combine_data has returned its table.
Combined == Len(final_df.index) > 0

\* get_dicts has returned its lists.
Indexed == list_dict # EmptyDict

\* The population file has no row that normalises to "00000", so the key
\* ("00000", date) names the national row alone.
NationalKeyUnique == Usa \notin Range(list_dict.pop_fips)

\* The Province_State of the confirmed row of a county code.
ProvinceOf(c) == (CHOOSE row \in Range(confirmed.rows) : row.FIPS = c).Province_State

\* The statements that precede the write of the primary table.
BeforeWrite ==
    DOMAIN [n \in {"get_data", "assert", "fix_fips", "get_dicts", "combine_data",
                   "New Cases", "New Deaths", "Cases, 7DMA", "Deaths, 7DMA",
                   "New Cases Per 100k, 7DMA", "Deaths Per 100k", "astype"} |-> 0]

\* The columns of the finished table, in the order they are to appear.
FinalColumns ==
    << "Confirmed", "Deaths", "New Cases", "New Deaths", "Cases, 7DMA", "Deaths, 7DMA",
       "New Cases Per 100k, 7DMA", "Deaths Per 100k" >>

-----------------------------------------------------------------------------
(* C1 *)

\* C1: when the last column labels of the confirmed and deaths sources differ,
\* the run never gets past the assert, and when it has ended there the tables
\* are as loaded (no FIPS normalised), no index list and no long table exist
\* and both files are as the previous run left them.
C1_StaleAbortsBeforeAnyWork ==
    LastLabel(world.confirmed) # LastLabel(world.deaths) =>
        /\ pc \in {"get_data", "assert"}
        /\ failure \in {"none", "NetworkFailure", "AssertionError"}
        /\ (pc = "assert" /\ failure # "none") => failure = "AssertionError"
        /\ confirmed \in {EmptyWide, world.confirmed}
        /\ deaths \in {EmptyWide, world.deaths}
        /\ population \in {[rows |-> <<>>], world.population}
        /\ list_dict = EmptyDict
        /\ final_df = EmptyFrame
        /\ disk = [primary |-> Previous, secondary |-> Previous]

\* A run on stale data has ended at the assert.
C1_Witness ==
    /\ LastLabel(world.confirmed) # LastLabel(world.deaths)
    /\ pc = "assert"
    /\ failure = "AssertionError"
    /\ confirmed = world.confirmed

-----------------------------------------------------------------------------
(* C2 *)

\* C2 as stated: for every date the national row's Confirmed (Deaths) value
\* equals the sum of the county rows' values of the long table.
C2_NationalIsSumOfCountyRows ==
    (Combined /\ NationalKeyUnique) =>
        \A l \in Range(list_dict.dates) : \A col \in {"Confirmed", "Deaths"} :
            Cell(final_df, col, Usa, ToDatetime(l))
              = SumOver(Range(list_dict.county_fips),
                        [c \in Range(list_dict.county_fips) |->
                            Cell(final_df, col, c, ToDatetime(l))])

\* C2 amended: for every date the national row's Confirmed (Deaths) value
\* equals the sum over every row of the confirmed (deaths) source file,
\* county or not.
C2_NationalIsSumOfSourceRows ==
    (Combined /\ NationalKeyUnique) =>
        \A l \in Range(list_dict.dates) : \A col \in {"Confirmed", "Deaths"} :
            Cell(final_df, col, Usa, ToDatetime(l))
              = SumOver(1..Len(SourceOf(col).rows),
                        [r \in 1..Len(SourceOf(col).rows) |->
                            SourceCell(SourceOf(col), r, l)])

\* The long table exists and its national row exceeds the sum of its county
\* rows at some date.
C2_Witness ==
    /\ Combined
    /\ NationalKeyUnique
    /\ \E l \in Range(list_dict.dates) :
          Cell(final_df, "Confirmed", Usa, ToDatetime(l))
            > SumOver(Range(list_dict.county_fips),
                      [c \in Range(list_dict.county_fips) |->
                          Cell(final_df, "Confirmed", c, ToDatetime(l))])

-----------------------------------------------------------------------------
(* C3 *)

\* C3 as stated: every state row's Confirmed (Deaths) value equals the sum of
\* the long table's county rows whose Province_State is the state's name.
C3_StateIsSumOfMemberCounties ==
    (Combined /\ NationalKeyUnique) =>
        \A s \in Range(list_dict.state_fips) : \A l \in Range(list_dict.dates) :
          \A col \in {"Confirmed", "Deaths"} :
            LET members == {c \in Range(list_dict.county_fips) :
                               ProvinceOf(c) = state_dict[s]}
            IN  Cell(final_df, col, s, ToDatetime(l))
                  = SumOver(members,
                            [c \in members |-> Cell(final_df, col, c, ToDatetime(l))])

\* C3 amended: every state row's Confirmed (Deaths) value equals the sum over
\* every row of the source file whose Province_State is the state's name,
\* county or not.
C3_StateIsSumOfSourceRows ==
    (Combined /\ NationalKeyUnique) =>
        \A s \in Range(list_dict.state_fips) : \A l \in Range(list_dict.dates) :
          \A col \in {"Confirmed", "Deaths"} :
            LET named == {r \in 1..Len(SourceOf(col).rows) :
                             SourceOf(col).rows[r].Province_State = state_dict[s]}
            IN  Cell(final_df, col, s, ToDatetime(l))
                  = SumOver(named, [r \in named |-> SourceCell(SourceOf(col), r, l)])

\* The long table exists and a state row exceeds the sum of its member
\* counties' rows at some date.
C3_Witness ==
    /\ Combined
    /\ NationalKeyUnique
    /\ \E s \in Range(list_dict.state_fips) : \E l \in Range(list_dict.dates) :
          LET members == {c \in Range(list_dict.county_fips) :
                             ProvinceOf(c) = state_dict[s]}
          IN  /\ members # {}
              /\ Cell(final_df, "Confirmed", s, ToDatetime(l))
                   > SumOver(members,
                             [c \in members |->
                                 Cell(final_df, "Confirmed", c, ToDatetime(l))])

-----------------------------------------------------------------------------
(* C4 *)

\* C4 as stated: once the table has the column Deaths Per 100k, the value in
\* the row of (i, d) is round(Deaths[i, d] / PER100K[i]) for every population
\* identifier i, and round(Deaths / the states' summed PER100K) for "00000".
C4_Per100kLandsInItsRow ==
    "Deaths Per 100k" \in Range(final_df.columns) =>
        \A l \in Range(list_dict.dates) :
            /\ \A i \in Range(list_dict.pop_fips) :
                  Cell(final_df, "Deaths Per 100k", i, ToDatetime(l))
                    = Round(Cell(final_df, "Deaths", i, ToDatetime(l)),
                            Per100kOf(population, i))
            /\ Cell(final_df, "Deaths Per 100k", Usa, ToDatetime(l))
                 = Round(Cell(final_df, "Deaths", Usa, ToDatetime(l)),
                         SumOver(Range(list_dict.state_fips),
                                 [f \in Range(list_dict.state_fips) |->
                                     Per100kOf(population, f)]))

-----------------------------------------------------------------------------
(* C5 *)

\* The rows of the table that bear identifier i, in chronological order.
Chronological(i) ==
    SortSeq(SelectSeq([p \in 1..Len(final_df.index) |-> p],
                      LAMBDA p : final_df.index[p][1] = i),
            LAMBDA p, q : DateLess(final_df.index[p][2], final_df.index[q][2]))

\* v is the integer nearest to x / n.
Nearest(v, x, n) == 2 * (n * v - x) <= n /\ 2 * (x - n * v) <= n

\* The derived column name holds, at the k-th chronological row of every
\* identifier (k from 0), the nearest integer to
\* (cumulative[k] - cumulative[k-n]) / n for k >= n and 0 for k < n,
\* cumulative being the identifier's own rows of the column source.
Rolling(name, source, n) ==
    name \in Range(final_df.columns) =>
        LET val == final_df.data[PosOf(final_df.columns, name)]
            cum == final_df.data[PosOf(final_df.columns, source)]
        IN  \A i \in {final_df.index[p][1] : p \in 1..Len(final_df.index)} :
                LET rows == Chronological(i)
                IN  \A k \in 0..(Len(rows) - 1) :
                        IF k >= n
                        THEN Nearest(val[rows[k + 1]],
                                     cum[rows[k + 1]] - cum[rows[k + 1 - n]], n)
                        ELSE val[rows[k + 1]] = 0

\* C5: New Cases and New Deaths are the window-1 deltas, the 7DMA columns the
\* window-7 deltas divided by 7 and rounded, each computed within the
\* identifier's own chronological rows, and 0 on the first N rows.
C5_RollingAveragePerIdentifier ==
    /\ Rolling("New Cases", "Confirmed", 1)
    /\ Rolling("New Deaths", "Deaths", 1)
    /\ Rolling("Cases, 7DMA", "Confirmed", 7)
    /\ Rolling("Deaths, 7DMA", "Deaths", 7)

\* The 7-day column exists and holds, at a row with seven earlier rows of its
\* identifier, a non-zero value that had to be rounded.
C5_Witness ==
    /\ "Cases, 7DMA" \in Range(final_df.columns)
    /\ \E i \in {final_df.index[p][1] : p \in 1..Len(final_df.index)} :
          LET rows == Chronological(i)
              cum  == final_df.data[PosOf(final_df.columns, "Confirmed")]
          IN  /\ i # Usa
              /\ Len(rows) >= 8
              /\ final_df.data[PosOf(final_df.columns, "Cases, 7DMA")][rows[8]] # 0
              /\ (cum[rows[8]] - cum[rows[1]]) % 7 # 0

-----------------------------------------------------------------------------
(* C6 *)

\* C6 as stated: county_fips and state_fips are disjoint, their union is
\* pop_fips, and every identifier of all_fips is exactly one of national,
\* state and county.
C6_IdentifierPartition ==
    Indexed =>
        LET county == Range(list_dict.county_fips)
            state  == Range(list_dict.state_fips)
        IN  /\ county \cap state = {}
            /\ county \cup state = Range(list_dict.pop_fips)
            /\ \A i \in Range(list_dict.all_fips) :
                  Cardinality({k \in {"national", "state", "county"} :
                                  \/ k = "national" /\ i = Usa
                                  \/ k = "state" /\ i \in state
                                  \/ k = "county" /\ i \in county}) = 1

\* C6 amended: county_fips and state_fips are disjoint and state_fips lies in
\* pop_fips; their union is pop_fips exactly when every identifier of
\* county_fips has a population row; and when that is so and the population
\* file has no "00000" row, every identifier of all_fips is exactly one of
\* national, state and county.
C6_PartitionOfWellFormedPopulation ==
    Indexed =>
        LET county == Range(list_dict.county_fips)
            state  == Range(list_dict.state_fips)
            pop    == Range(list_dict.pop_fips)
        IN  /\ county \cap state = {}
            /\ state \subseteq pop
            /\ (county \cup state = pop) <=> (county \subseteq pop)
            /\ Range(list_dict.all_fips) = pop \cup {Usa}
            /\ (county \subseteq pop /\ Usa \notin pop) =>
                  \A i \in Range(list_dict.all_fips) :
                      Cardinality({k \in {"national", "state", "county"} :
                                      \/ k = "national" /\ i = Usa
                                      \/ k = "state" /\ i \in state
                                      \/ k = "county" /\ i \in county}) = 1

\* get_dicts has returned for a population file that holds every county and
\* no "00000" row, with counties and states both present.
C6_Witness ==
    /\ Indexed
    /\ Range(list_dict.county_fips) \subseteq Range(list_dict.pop_fips)
    /\ Usa \notin Range(list_dict.pop_fips)
    /\ Len(list_dict.county_fips) >= 3
    /\ Len(list_dict.state_fips) >= 2

-----------------------------------------------------------------------------
(* C7 *)

\* C7: the primary file, once written, holds exactly one row for every
\* (identifier, date) with the identifier in all_fips and the date in dates,
\* no other row, and its rows ascend by identifier and, within an identifier,
\* by calendar date.
C7_PersistedRowsCompleteAndSorted ==
    disk.primary.tag = "new" =>
        LET idx == disk.primary.frame.index
        IN  /\ Range(idx) = {<<i, ToDatetime(l)>> :
                                i \in Range(list_dict.all_fips), l \in Range(list_dict.dates)}
            /\ \A p \in 1..(Len(idx) - 1) :
                  \/ StrLess(idx[p][1], idx[p + 1][1])
                  \/ idx[p][1] = idx[p + 1][1] /\ DateLess(idx[p][2], idx[p + 1][2])

\* The primary file is written from date labels whose string order is not
\* their calendar order.
C7_Witness ==
    /\ disk.primary.tag = "new"
    /\ Len(disk.primary.frame.index) > 0
    /\ \E a, b \in Range(list_dict.dates) :
          StrLess(a, b) /\ DateLess(ToDatetime(b), ToDatetime(a))

-----------------------------------------------------------------------------
(* C8 *)

\* The run has passed the assert of line 28.
PastCheck == pc \notin {"get_data", "assert"}

\* C8 as stated: past the check, the confirmed and the deaths table have the
\* same sequence of date columns.
C8_DateSequencesIdentical ==
    PastCheck => confirmed.dates = deaths.dates

\* C8 amended: past the check, the confirmed and the deaths table have the
\* same last column label; nothing else about their date columns is checked.
C8_LastLabelsIdentical ==
    PastCheck => LastLabel(confirmed) = LastLabel(deaths)

\* A run has finished on a deaths table with one date column more than the
\* confirmed table.
C8_Witness ==
    /\ pc = "done"
    /\ Len(deaths.dates) = Len(confirmed.dates) + 1
    /\ LastLabel(confirmed) = LastLabel(deaths)

-----------------------------------------------------------------------------
(* C9 *)

\* C9 as stated: a run that has failed, at whatever stage, leaves both files
\* as the previous run wrote them.
C9_FailedRunLeavesBothFiles ==
    failure # "none" => disk = [primary |-> Previous, secondary |-> Previous]

\* C9 amended: a failed run takes no further step; if it failed before the
\* write of the primary table both files are as the previous run wrote them;
\* if it failed in that write the primary file is as before or truncated and
\* the secondary as before; if it failed in the export the primary file is
\* already rewritten and the secondary is as before or truncated.
C9_FailureBeforeWriteLeavesBothFiles ==
    failure # "none" =>
        /\ ~ENABLED Next
        /\ pc \in BeforeWrite => disk = [primary |-> Previous, secondary |-> Previous]
        /\ pc = "to_csv" => /\ disk.primary \in {Previous, Truncated}
                            /\ disk.secondary = Previous
        /\ pc = "export" => /\ disk.primary.tag = "new"
                            /\ disk.secondary \in {Previous, Truncated}

\* A run has failed inside combine_data or new_column, after the tables were
\* normalised and before anything was written.
C9_Witness ==
    /\ failure \in {"KeyError", "ValueError"}
    /\ pc \in BeforeWrite
    /\ Indexed
    /\ disk = [primary |-> Previous, secondary |-> Previous]

-----------------------------------------------------------------------------
(* C10 *)

\* C10: the table's columns are always an initial part of Confirmed, Deaths,
\* New Cases, New Deaths, Cases 7DMA, Deaths 7DMA, New Cases Per 100k 7DMA,
\* Deaths Per 100k; a derived column is integer-typed only in the table that
\* has all six; and the file written holds all six, integer-typed.
C10_DerivedColumnsInOrder ==
    /\ Len(final_df.columns) <= Len(FinalColumns)
    /\ \A j \in 1..Len(final_df.columns) : final_df.columns[j] = FinalColumns[j]
    /\ (\E j \in 3..Len(final_df.dtypes) : final_df.dtypes[j] = "int64")
          => final_df.columns = FinalColumns
    /\ disk.primary.tag = "new" =>
          /\ disk.primary.frame.columns = FinalColumns
          /\ \A j \in 1..Len(FinalColumns) : disk.primary.frame.dtypes[j] = "int64"

\* A run has finished and its primary file holds the six derived columns.
C10_Witness ==
    /\ pc = "done"
    /\ disk.primary.tag = "new"
    /\ Len(disk.primary.frame.columns) = 8

====
